---- MODULE Spec2Model ----
(***************************************************************************)
(* A model of twittapi.TwitterApi (src/twittapi/TwitterApi.py): a client   *)
(* object holding a RapidAPI key, one shared request helper, and one       *)
(* forwarding method per upstream endpoint.                                *)
(*                                                                         *)
(* Python values are tagged records so that None, strings, integers,       *)
(* booleans, dicts and lists stay distinct; a dict is the sequence of its  *)
(* <<key, value>> items in insertion order.                                *)
(***************************************************************************)
EXTENDS Integers, Sequences, FiniteSets, TLC

VARIABLES
  inst,             \* the TwitterApi objects: their attributes, once constructed
  call,             \* per thread: the constructor or accessor invocation in progress
  wire,             \* per thread: the GET requests the current invocation has sent
  stdout            \* per thread: the lines printed by the last constructor or accessor

vars == <<inst, call, wire, stdout>>

---------------------------------------------------------------------------
(* Python values *)

None == [t |-> "None"]
PyStr(s) == [t |-> "str", v |-> s]
PyInt(n) == [t |-> "int", v |-> n]
PyBool(b) == [t |-> "bool", v |-> b]
PyDict(items) == [t |-> "dict", v |-> items]
PyList(elems) == [t |-> "list", v |-> elems]

\* an attribute that was never assigned, an argument that was not supplied
Unset == [t |-> "unset"]

\* bool(x) as Python's `if x` / `not x` evaluates it
Truthy(x) ==
  CASE x.t = "None" -> FALSE
    [] x.t = "str"  -> x.v # ""
    [] x.t = "int"  -> x.v # 0
    [] x.t = "bool" -> x.v
    [] x.t = "dict" -> Len(x.v) > 0
    [] x.t = "list" -> Len(x.v) > 0

HasKey(items, k) == \E n \in 1..Len(items) : items[n][1] = k

ValueOf(items, k) == items[CHOOSE n \in 1..Len(items) : items[n][1] = k][2]

\* x[k] for a string key k: the value, or the exception Python raises
Subscript(x, k) ==
  IF x.t = "dict"
    THEN IF HasKey(x.v, k)
           THEN [raised |-> FALSE, exc |-> "", value |-> ValueOf(x.v, k)]
           ELSE [raised |-> TRUE, exc |-> "KeyError", value |-> Unset]
    ELSE [raised |-> TRUE, exc |-> "TypeError", value |-> Unset]

Digit(d) ==
  CASE d = 0 -> "0" [] d = 1 -> "1" [] d = 2 -> "2" [] d = 3 -> "3" [] d = 4 -> "4"
    [] d = 5 -> "5" [] d = 6 -> "6" [] d = 7 -> "7" [] d = 8 -> "8" [] d = 9 -> "9"

RECURSIVE Decimal(_)
Decimal(n) == IF n < 10 THEN Digit(n) ELSE Decimal(n \div 10) \o Digit(n % 10)

\* str(x) for the scalars a parameter mapping holds
Str(x) ==
  CASE x.t = "str"  -> x.v
    [] x.t = "int"  -> Decimal(x.v)
    [] x.t = "bool" -> IF x.v THEN "True" ELSE "False"
    [] x.t = "None" -> "None"

---------------------------------------------------------------------------
(* The constructor *)

HostName == "twitter-x-api.p.rapidapi.com"

BaseApiUrl(h) == "https://" \o h \o "/api"

InitRaises_OnlyNone(x_rapidapi_key) == x_rapidapi_key = None

\* `if not x_rapidapi_key:` print the tutorial and raise ValueError
InitRaises(x_rapidapi_key) == ~Truthy(x_rapidapi_key)

InitHeaders_HostAsKey(x_rapidapi_key, h) ==
  ("x-rapidapi-key" :> PyStr(h)) @@ ("x-rapidapi-host" :> PyStr(h))

\* self.headers
InitHeaders(x_rapidapi_key, h) ==
  ("x-rapidapi-key" :> x_rapidapi_key) @@ ("x-rapidapi-host" :> PyStr(h))

\* a name not bound to an object: nothing constructed, or __init__ raised
Unbuilt ==
  [state |-> "unbuilt", arg |-> Unset,
   x_rapidapi_key |-> Unset, host |-> Unset, base_api_url |-> Unset, headers |-> Unset]

\* the object __init__ leaves when it does not raise; arg remembers the
\* argument it was constructed with
TwitterApiInit(x_rapidapi_key) ==
  [state |-> "ready", arg |-> x_rapidapi_key,
   x_rapidapi_key |-> x_rapidapi_key,
   host |-> PyStr(HostName),
   base_api_url |-> PyStr(BaseApiUrl(HostName)),
   headers |-> InitHeaders(x_rapidapi_key, HostName)]

---------------------------------------------------------------------------
(* The accessors: one row per public method, in source order.  kind says   *)
(* which parameters the signature takes and the mapping the body builds:   *)
(*   "single"   (self, id)                                 {id}            *)
(*   "simplify" (self, id, is_simplify=False)              {id, is_simplify} *)
(*   "paged"    (self, id, count=20, cursor=None, is_simplify=False)       *)
(*              {id, count, cursor, is_simplify}                           *)
(*   "derived"  get_user_id_by_username: calls get_user_detail             *)

Accessors == <<
  [name |-> "get_user_detail",             kind |-> "single",   idKey |-> "username", path |-> "/user/detail"],
  [name |-> "get_user_id_by_username",     kind |-> "derived",  idKey |-> "username", path |-> "/user/detail"],
  [name |-> "get_user_followers",          kind |-> "paged",    idKey |-> "user_id",  path |-> "/user/followers"],
  [name |-> "get_user_verified_followers", kind |-> "paged",    idKey |-> "user_id",  path |-> "/user/followers/blue-verified"],
  [name |-> "get_user_following",          kind |-> "paged",    idKey |-> "user_id",  path |-> "/user/following"],
  [name |-> "get_user_subscriptions",      kind |-> "paged",    idKey |-> "user_id",  path |-> "/user/subscriptions"],
  [name |-> "get_user_tweets",             kind |-> "paged",    idKey |-> "user_id",  path |-> "/user/tweets"],
  [name |-> "get_user_replies",            kind |-> "paged",    idKey |-> "user_id",  path |-> "/user/replies"],
  [name |-> "get_user_medias",             kind |-> "paged",    idKey |-> "user_id",  path |-> "/user/medias"],
  [name |-> "get_tweet_detail",            kind |-> "single",   idKey |-> "tweet_id", path |-> "/tweet/detail"],
  [name |-> "get_tweet_retweeters",        kind |-> "paged",    idKey |-> "tweet_id", path |-> "/tweet/retweeters"],
  [name |-> "get_tweet_retweets",          kind |-> "paged",    idKey |-> "tweet_id", path |-> "/tweet/retweets"],
  [name |-> "get_tweet_hidden_replies",    kind |-> "paged",    idKey |-> "tweet_id", path |-> "/tweet/hidden-replies"],
  [name |-> "search_top",                  kind |-> "paged",    idKey |-> "keyword",  path |-> "/search/top"],
  [name |-> "search_latest",               kind |-> "paged",    idKey |-> "keyword",  path |-> "/search/latest"],
  [name |-> "search_people",               kind |-> "paged",    idKey |-> "keyword",  path |-> "/search/people"],
  [name |-> "search_media",                kind |-> "paged",    idKey |-> "keyword",  path |-> "/search/media"],
  [name |-> "search_lists",                kind |-> "paged",    idKey |-> "keyword",  path |-> "/search/lists"],
  [name |-> "get_list_tweets",             kind |-> "paged",    idKey |-> "list_id",  path |-> "/list/tweets"],
  [name |-> "get_list_followers",          kind |-> "paged",    idKey |-> "list_id",  path |-> "/list/followers"],
  [name |-> "get_list_member",             kind |-> "paged",    idKey |-> "list_id",  path |-> "/list/member"],
  [name |-> "get_job_detail",              kind |-> "simplify", idKey |-> "job_id",   path |-> "/job/detail"],
  [name |-> "search_job",                  kind |-> "paged",    idKey |-> "keyword",  path |-> "/job/search"],
  [name |-> "search_job_location",         kind |-> "single",   idKey |-> "query",    path |-> "/job/search/location"]
>>

Methods == 1..Len(Accessors)

IsPaged(m) == Accessors[m].kind = "paged"

\* the methods whose body ends in `return self._make_request(url, params)`
IsForwarding(m) == Accessors[m].kind # "derived"

Default(arg, d) == IF arg = Unset THEN d ELSE arg

BindDefaults_CountTen(a) ==
  [id |-> a.id,
   count |-> Default(a.count, PyInt(10)),
   cursor |-> Default(a.cursor, PyStr("")),
   is_simplify |-> Default(a.is_simplify, PyBool(FALSE))]

\* the signature's defaults: count: int = 20, cursor: str = None,
\* is_simplify: bool = False
BindDefaults(a) ==
  [id |-> a.id,
   count |-> Default(a.count, PyInt(20)),
   cursor |-> Default(a.cursor, None),
   is_simplify |-> Default(a.is_simplify, PyBool(FALSE))]

RECURSIVE DropNone(_)
DropNone(items) ==
  IF items = << >> THEN << >>
  ELSE IF Head(items)[2] = None THEN DropNone(Tail(items))
  ELSE <<Head(items)>> \o DropNone(Tail(items))

ParamItems(m, b) ==
  CASE Accessors[m].kind \in {"single", "derived"} ->
         << <<Accessors[m].idKey, b.id>> >>
    [] Accessors[m].kind = "simplify" ->
         << <<Accessors[m].idKey, b.id>>, <<"is_simplify", b.is_simplify>> >>
    [] Accessors[m].kind = "paged" ->
         << <<Accessors[m].idKey, b.id>>, <<"count", b.count>>,
            <<"cursor", b.cursor>>, <<"is_simplify", b.is_simplify>> >>

AccessorParams_Filtered(m, a) == DropNone(ParamItems(m, BindDefaults(a)))

\* params = {...}: the mapping the accessor hands to _make_request, built
\* from the arguments as bound by the signature
AccessorParams(m, a) == ParamItems(m, BindDefaults(a))

\* url = f'{self.base_api_url}/...'
AccessorUrl(self, m) == self.base_api_url.v \o Accessors[m].path

---------------------------------------------------------------------------
(* requests.get as _make_request uses it *)

\* The query string requests builds from params=: an item whose value is
\* None is left out, every other value is sent as str(value).  Percent
\* escaping is not modelled; the identifiers below need none.
RECURSIVE EncodeParams(_)
EncodeParams(items) ==
  IF items = << >> THEN << >>
  ELSE IF Head(items)[2] = None THEN EncodeParams(Tail(items))
  ELSE << <<Head(items)[1], Str(Head(items)[2])>> >> \o EncodeParams(Tail(items))

PreparedRequest_ClassHeaders(self, url, params) ==
  [url |-> url, query |-> EncodeParams(params),
   headers |-> IF inst["b"].state = "ready" THEN inst["b"].headers ELSE self.headers]

\* requests.get(url, params=params, headers=self.headers): the GET that leaves
PreparedRequest(self, url, params) ==
  [url |-> url, query |-> EncodeParams(params), headers |-> self.headers]

AfterAnswer_RetryOnce(sent, res) ==
  IF res.kind = "exception" \/ (400 <= res.status /\ res.status < 600)
    THEN sent \o sent
    ELSE sent

\* the GETs of the invocation once _make_request has dealt with the answer:
\* the try body and both except clauses end in a return, none calls
\* requests.get again
AfterAnswer(sent, res) == sent

ConfigAfterRequest_KeepsUrl(self, url, params) == [self EXCEPT !.base_api_url = PyStr(url)]

\* the object's attributes once an accessor and _make_request have run:
\* url and params are locals, self.headers is only read
ConfigAfterRequest(self, url, params) == self

raise_for_status_ServerOnly(status) == 500 <= status /\ status < 600

\* res.raise_for_status(): HTTPError for 4xx and 5xx, nothing otherwise
raise_for_status(status) == 400 <= status /\ status < 600

Returned(value, printed) == [raised |-> FALSE, exc |-> "", value |-> value, printed |-> printed]

Raised(exc) == [raised |-> TRUE, exc |-> exc, value |-> Unset, printed |-> << >>]

make_request_NoTransportCatch(res, version) ==
  IF res.kind = "exception" THEN Raised(res.exc)
  ELSE IF raise_for_status(res.status)
    THEN Returned(None, << <<"HTTP error occurred", res.status>> >>)
  ELSE IF res.isJson THEN Returned(res.body, << >>)
  ELSE IF version = "2.27+"
    THEN Returned(None, << <<"An error occurred", "JSONDecodeError">> >>)
  ELSE Raised("JSONDecodeError")

make_request_Envelope(res, version) ==
  IF res.kind = "exception"
    THEN Returned(None, << <<"An error occurred", res.exc>> >>)
  ELSE IF raise_for_status(res.status)
    THEN Returned(None, << <<"HTTP error occurred", res.status>> >>)
  ELSE IF res.isJson THEN Returned(PyDict(<< <<"data", res.body>> >>), << >>)
  ELSE IF version = "2.27+"
    THEN Returned(None, << <<"An error occurred", "JSONDecodeError">> >>)
  ELSE Raised("JSONDecodeError")

\* _make_request from the point where requests.get has an answer `res`: a
\* response, or a RequestException raised by the transport.  res.json() on a
\* body that is not JSON raises requests.exceptions.JSONDecodeError, a
\* RequestException from requests 2.27 on and a plain ValueError before.
make_request(res, version) ==
  IF res.kind = "exception"
    THEN Returned(None, << <<"An error occurred", res.exc>> >>)
  ELSE IF raise_for_status(res.status)
    THEN Returned(None, << <<"HTTP error occurred", res.status>> >>)
  ELSE IF res.isJson THEN Returned(res.body, << >>)
  ELSE IF version = "2.27+"
    THEN Returned(None, << <<"An error occurred", "JSONDecodeError">> >>)
  ELSE Raised("JSONDecodeError")

\* user_detail['user']['result']['rest_id']
RestIdOf(user_detail) ==
  LET u == Subscript(user_detail, "user") IN
    IF u.raised THEN u
    ELSE LET r == Subscript(u.value, "result") IN
      IF r.raised THEN r ELSE Subscript(r.value, "rest_id")

get_user_id_by_username_NoGuard(detail) ==
  IF detail.raised THEN detail
  ELSE LET f == RestIdOf(detail.value) IN
    IF f.raised THEN Raised(f.exc) ELSE Returned(f.value, detail.printed)

get_user_id_by_username_AsText(detail) ==
  IF detail.raised THEN detail
  ELSE IF ~Truthy(detail.value) THEN Returned(None, detail.printed)
  ELSE LET f == RestIdOf(detail.value) IN
    IF f.raised THEN Raised(f.exc)
    ELSE Returned(PyStr(Str(f.value)), detail.printed)

\* get_user_id_by_username after get_user_detail has come back with `detail`:
\* `user_detail['user']['result']['rest_id'] if user_detail else None`
get_user_id_by_username(detail) ==
  IF detail.raised THEN detail
  ELSE IF ~Truthy(detail.value) THEN Returned(None, detail.printed)
  ELSE LET f == RestIdOf(detail.value) IN
    IF f.raised THEN Raised(f.exc) ELSE Returned(f.value, detail.printed)

\* what method m gives its caller once the transport has answered `res`
AccessorOutcome(m, res, version) ==
  IF IsForwarding(m) THEN make_request(res, version)
  ELSE get_user_id_by_username(make_request(res, version))

---------------------------------------------------------------------------
(* The environment: callers' arguments and the transport's answers *)

Inst == {"a", "b"}

Thread == {"main", "worker"}

KeyArgs == << None, PyStr(""), PyStr("key-A"), PyStr("key-B") >>

IdArgs == << PyStr("elonmusk"), PyStr("44196397") >>

\* explicit count arguments are 1..MaxCount
MaxCount == 1

CountArgs == << Unset >> \o [n \in 1..MaxCount |-> PyInt(n)]

CursorArgs == << Unset, PyStr("DAABCgABGV") >>

SimplifyArgs == << Unset, PyBool(TRUE) >>

\* the argument lists a call of method m can be made with
FitsSignature(m, a) ==
  CASE Accessors[m].kind \in {"single", "derived"} ->
         a.count = Unset /\ a.cursor = Unset /\ a.is_simplify = Unset
    [] Accessors[m].kind = "simplify" -> a.count = Unset /\ a.cursor = Unset
    [] Accessors[m].kind = "paged" -> TRUE

RestId(v) == PyDict(<< <<"user", PyDict(<< <<"result", PyDict(<< <<"rest_id", v>> >>)>> >>)>> >>)

\* JSON bodies as res.json() parses them
NotFoundBody == PyDict(<< <<"message", PyStr("not found")>> >>)

Bodies == <<
  None,
  PyDict(<< >>),
  RestId(PyStr("44196397")),
  RestId(PyInt(12)),
  RestId(None),
  PyDict(<< <<"user", PyDict(<< <<"result", PyDict(<< >>)>> >>)>> >>),
  PyDict(<< <<"user", PyDict(<< >>)>> >>),
  PyDict(<< <<"user", None>> >>),
  NotFoundBody,
  PyList(<< >>),
  PyList(<< PyStr("x") >>)
>>

Response(status, isJson, body) ==
  [kind |-> "response", status |-> status, isJson |-> isJson, body |-> body, exc |-> ""]

TransportError(exc) ==
  [kind |-> "exception", status |-> 0, isJson |-> FALSE, body |-> Unset, exc |-> exc]

\* final statuses with a body that is not JSON, and with a JSON body
PlainAnswers == <<
  Response(101, FALSE, Unset), Response(200, FALSE, Unset), Response(204, FALSE, Unset),
  Response(304, FALSE, Unset), Response(404, FALSE, Unset), Response(500, FALSE, Unset),
  Response(300, TRUE, NotFoundBody), Response(400, TRUE, NotFoundBody),
  Response(404, TRUE, RestId(PyStr("44196397"))), Response(599, TRUE, RestId(PyInt(12)))
>>

\* requests.exceptions.JSONDecodeError exists from requests 2.27 on; setup.py
\* asks for 'requests' with no version
RequestsVersions == {"2.27+", "pre-2.27"}

\* requests.get's exceptions: DNS and refused connections, timeouts
TransportErrors == << TransportError("ConnectionError"), TransportError("Timeout") >>

Answers ==
  [k \in 1..Len(Bodies) |-> Response(200, TRUE, Bodies[k])] \o PlainAnswers \o TransportErrors

---------------------------------------------------------------------------
(* The state machine *)

IdleCall ==
  [pc |-> "idle", self |-> "", method |-> 0, args |-> Unset, url |-> "",
   params |-> << >>, response |-> Unset, raised |-> FALSE, exc |-> "", value |-> Unset]

Tutorial == << <<"To obtain the API key for accessing the RapidAPI Twitter API", "">> >>

Init ==
  /\ inst = [i \in Inst |-> Unbuilt]
  /\ call = [t \in Thread |-> IdleCall]
  /\ wire = [t \in Thread |-> << >>]
  /\ stdout = [t \in Thread |-> << >>]

\* thread t runs i = TwitterApi(KeyArgs[k]): either __init__ prints the
\* tutorial and raises ValueError, and i stays unbound, or i is the new object
Construct(t, i, k) ==
  /\ call[t].pc = "idle"
  /\ inst[i].state = "unbuilt"
  /\ IF InitRaises(KeyArgs[k])
       THEN /\ call' = [call EXCEPT ![t] =
                          [IdleCall EXCEPT !.pc = "init_raised", !.self = i,
                                           !.args = KeyArgs[k], !.raised = TRUE,
                                           !.exc = "ValueError"]]
            /\ stdout' = [stdout EXCEPT ![t] = Tutorial]
            /\ UNCHANGED inst
       ELSE /\ inst' = [inst EXCEPT ![i] = TwitterApiInit(KeyArgs[k])]
            /\ stdout' = [stdout EXCEPT ![t] = << >>]
            /\ UNCHANGED call
  /\ UNCHANGED wire

\* thread t calls method m of object i with arguments a: the accessor builds
\* url and params, and _make_request hands them to requests.get, which sends
\* the GET and blocks
Call(t, i, m, a) ==
  /\ call[t].pc = "idle"
  /\ inst[i].state = "ready"
  /\ FitsSignature(m, a)
  /\ LET url == AccessorUrl(inst[i], m)
         params == AccessorParams(m, a)
     IN /\ call' = [call EXCEPT ![t] =
                      [IdleCall EXCEPT !.pc = "waiting", !.self = i, !.method = m,
                                       !.args = a, !.url = url, !.params = params]]
        /\ wire' = [wire EXCEPT ![t] = << PreparedRequest(inst[i], url, params) >>]
        /\ inst' = [inst EXCEPT ![i] = ConfigAfterRequest(inst[i], url, params)]
  /\ stdout' = [stdout EXCEPT ![t] = << >>]

\* requests.get comes back with answer res, and the rest of _make_request
\* and of the accessor runs to its return or raise, under the requests
\* release the installation resolved
Respond(t, res, version) ==
  /\ call[t].pc = "waiting"
  /\ LET out == AccessorOutcome(call[t].method, res, version)
     IN /\ call' = [call EXCEPT ![t].pc = IF out.raised THEN "raised" ELSE "returned",
                                ![t].response = res,
                                ![t].raised = out.raised,
                                ![t].exc = out.exc,
                                ![t].value = out.value]
        /\ stdout' = [stdout EXCEPT ![t] = out.printed]
  /\ wire' = [wire EXCEPT ![t] = AfterAnswer(wire[t], res)]
  /\ UNCHANGED inst

\* the caller has the result (or the exception) in hand and goes on
Finish(t) ==
  /\ call[t].pc \in {"returned", "raised", "init_raised"}
  /\ call' = [call EXCEPT ![t] = IdleCall]
  /\ wire' = [wire EXCEPT ![t] = << >>]
  /\ stdout' = [stdout EXCEPT ![t] = << >>]
  /\ UNCHANGED inst

ArgLists ==
  { [id |-> IdArgs[n], count |-> CountArgs[c], cursor |-> CursorArgs[u],
     is_simplify |-> SimplifyArgs[s]] :
      n \in 1..Len(IdArgs), c \in 1..Len(CountArgs),
      u \in 1..Len(CursorArgs), s \in 1..Len(SimplifyArgs) }

Step(t) ==
  \/ \E i \in Inst, k \in 1..Len(KeyArgs) : Construct(t, i, k)
  \/ \E i \in Inst, m \in Methods, a \in ArgLists : Call(t, i, m, a)
  \/ \E r \in 1..Len(Answers), v \in RequestsVersions : Respond(t, Answers[r], v)
  \/ Finish(t)

\* the library as the spec describes its use: one synchronous caller
Next == Step("main")

Spec == Init /\ [][Next]_vars

\* the calls and answers the two-thread specification draws from: one
\* method of each kind of signature and the derived one, each identifier,
\* the other arguments left to their defaults
ThreadMethods ==
  { m \in Methods :
      Accessors[m].name \in {"get_user_detail", "get_user_id_by_username",
                             "get_user_followers", "search_top", "get_job_detail"} }

ThreadArgLists ==
  { [id |-> IdArgs[n], count |-> Unset, cursor |-> Unset, is_simplify |-> Unset] :
      n \in 1..Len(IdArgs) }

ThreadAnswers == <<
  Response(200, TRUE, RestId(PyStr("44196397"))), Response(200, TRUE, NotFoundBody),
  Response(200, FALSE, Unset), Response(404, TRUE, NotFoundBody),
  Response(500, FALSE, Unset), TransportError("Timeout")
>>

StepThreads(t) ==
  \/ \E i \in Inst, k \in 1..Len(KeyArgs) : Construct(t, i, k)
  \/ \E i \in Inst, m \in ThreadMethods, a \in ThreadArgLists : Call(t, i, m, a)
  \/ \E r \in 1..Len(ThreadAnswers), v \in RequestsVersions : Respond(t, ThreadAnswers[r], v)
  \/ Finish(t)

\* two callers on separate threads, each free to use either object; a step
\* of one thread is taken while the other waits for its answer or not
NextThreads == \E t \in Thread : StepThreads(t)

SpecThreads == Init /\ [][NextThreads]_vars

---------------------------------------------------------------------------
(* Vocabulary of the properties *)

Done(t) == call[t].pc \in {"returned", "raised"}

InFlight(t) == call[t].pc \in {"waiting", "returned", "raised"}

GotResponse(t) == Done(t) /\ call[t].response.kind = "response"

GotJson(t) == GotResponse(t) /\ call[t].response.isJson

ReturnedNone(t) == call[t].pc = "returned" /\ call[t].value = None

IsErrorStatus(status) == status \in 400..599

IsDerived(m) == Accessors[m].name = "get_user_id_by_username"

\* d is a dict that has key k
DictWith(d, k) == d.t = "dict" /\ \E n \in 1..Len(d.v) : d.v[n][1] = k

Field(d, k) == d.v[CHOOSE n \in 1..Len(d.v) : d.v[n][1] = k][2]

\* body holds user.result.rest_id
HasRestId(body) ==
  /\ DictWith(body, "user")
  /\ DictWith(Field(body, "user"), "result")
  /\ DictWith(Field(Field(body, "user"), "result"), "rest_id")

RestIdIn(body) == Field(Field(Field(body, "user"), "result"), "rest_id")

FixedHost == "twitter-x-api.p.rapidapi.com"

---------------------------------------------------------------------------
(* C1 *)

---------------------------------------------------------------------------
(* C2 *)

\* C2: whenever get_user_id_by_username ends after a detail lookup that gave
\* a non-failure value (a JSON body other than null under a non-error
\* status) lacking user.result.rest_id at some level, it has returned None
\* without raising.
C2_MissingFieldReturnsNone ==
  \A t \in Thread :
    (/\ GotJson(t) /\ IsDerived(call[t].method)
     /\ ~IsErrorStatus(call[t].response.status)
     /\ call[t].response.body # None
     /\ ~HasRestId(call[t].response.body))
      => ReturnedNone(t)

---------------------------------------------------------------------------
(* C3 *)

\* C3 as stated: in every accessor call, each entry of the parameter mapping
\* whose value is None is present in the query of the GET that was sent.
C3_NoneParamsSent ==
  \A t \in Thread :
    InFlight(t) =>
      \A n \in 1..Len(call[t].params) :
        call[t].params[n][2] = None
          => HasKey(wire[t][1].query, call[t].params[n][1])

\* C3 as amended: in every accessor call the mapping handed to requests.get
\* keeps every entry the accessor builds, None-valued ones included (cursor
\* is there, and is None when not supplied); the query of the GET that is
\* sent leaves out exactly the None-valued entries and carries every other
\* entry as str(value).
C3_NoneParamsReachRequestsOnly ==
  \A t \in Thread :
    InFlight(t) =>
      LET p == call[t].params
          q == wire[t][1].query
      IN /\ IsPaged(call[t].method) =>
              /\ HasKey(p, "cursor")
              /\ call[t].args.cursor = Unset => ValueOf(p, "cursor") = None
         /\ \A n \in 1..Len(p) :
              IF p[n][2] = None
                THEN ~HasKey(q, p[n][1])
                ELSE HasKey(q, p[n][1]) /\ ValueOf(q, p[n][1]) = Str(p[n][2])
         /\ \A n \in 1..Len(q) : HasKey(p, q[n][1])

C3_Witness ==
  \E t \in Thread :
    /\ call[t].pc = "waiting"
    /\ Accessors[call[t].method].name = "get_user_followers"
    /\ call[t].args.cursor = Unset
    /\ HasKey(call[t].params, "cursor")
    /\ ~HasKey(wire[t][1].query, "cursor")
    /\ HasKey(wire[t][1].query, "count")

---------------------------------------------------------------------------
(* C4 *)

\* C4: a construction with key None or "" never yields an object: it ends
\* in ValueError with the tutorial printed, the name stays unbound, and the
\* constructing step sends nothing; no accessor call ever runs on anything
\* but a constructed object.
C4_EmptyKeyFailsWithoutNetwork ==
  /\ [](\A i \in Inst :
          inst[i].state # "unbuilt" => (inst[i].arg # None /\ inst[i].arg # PyStr("")))
  /\ [](\A t \in Thread :
          /\ call[t].pc = "init_raised" =>
               /\ call[t].exc = "ValueError"
               /\ inst[call[t].self] = Unbuilt
               /\ wire[t] = << >>
               /\ stdout[t] # << >>
          /\ InFlight(t) => inst[call[t].self].state = "ready")
  /\ [][(\/ inst' # inst
         \/ \E t \in Thread : call[t].pc = "idle" /\ call'[t].pc = "init_raised")
          => wire' = wire]_vars

C4_Witness ==
  /\ call["main"].pc = "init_raised"
  /\ call["main"].args = PyStr("")
  /\ call["main"].exc = "ValueError"
  /\ inst[call["main"].self].state = "unbuilt"

---------------------------------------------------------------------------
(* C5 *)

\* C5: no construction with a non-empty string key raises, and every object
\* constructed holds headers that are exactly {'x-rapidapi-key': the key it
\* was constructed with, 'x-rapidapi-host': the fixed host}.
C5_NonEmptyKeyBuildsHeaders ==
  /\ \A t \in Thread :
       call[t].pc = "init_raised" => ~(call[t].args.t = "str" /\ call[t].args.v # "")
  /\ \A i \in Inst :
       inst[i].state # "unbuilt"
         => /\ inst[i].state = "ready"
            /\ DOMAIN inst[i].headers = {"x-rapidapi-key", "x-rapidapi-host"}
            /\ inst[i].headers["x-rapidapi-key"] = inst[i].arg
            /\ inst[i].headers["x-rapidapi-host"] = PyStr(FixedHost)

C5_Witness ==
  /\ inst["a"].state = "ready" /\ inst["a"].arg = PyStr("key-B")
  /\ inst["a"].headers["x-rapidapi-key"] = PyStr("key-B")
  /\ inst["b"].state = "ready" /\ inst["b"].arg = PyStr("key-A")
  /\ inst["b"].headers["x-rapidapi-key"] = PyStr("key-A")

---------------------------------------------------------------------------
(* C6 *)

\* C6 as stated: whenever a forwarding accessor ends on HTTP 200 with a
\* JSON body B, it has returned exactly B, and what it returned is not the
\* failure marker None.
C6_BodyReturnedNeverMarker ==
  \A t \in Thread :
    (GotJson(t) /\ IsForwarding(call[t].method) /\ call[t].response.status = 200)
      => /\ call[t].pc = "returned"
         /\ call[t].value = call[t].response.body
         /\ call[t].value # None

\* C6 as amended: whenever an accessor that forwards to _make_request (every
\* method but get_user_id_by_username) ends on HTTP 200 with a JSON body B,
\* it has returned exactly B without raising and has printed nothing; the
\* value differs from the failure marker None unless B is JSON null.
C6_BodyReturnedVerbatim ==
  \A t \in Thread :
    (GotJson(t) /\ IsForwarding(call[t].method) /\ call[t].response.status = 200)
      => /\ call[t].pc = "returned"
         /\ call[t].value = call[t].response.body
         /\ stdout[t] = << >>
         /\ (call[t].value = None) <=> (call[t].response.body = [t |-> "None"])

C6_Witness ==
  \E t \in Thread :
    /\ call[t].pc = "returned"
    /\ Accessors[call[t].method].name = "get_user_detail"
    /\ call[t].response.status = 200
    /\ call[t].response.body = PyDict(<< <<"message", PyStr("not found")>> >>)
    /\ call[t].value = call[t].response.body

---------------------------------------------------------------------------
(* C7 *)

---------------------------------------------------------------------------
(* C8 *)

---------------------------------------------------------------------------
(* C9 *)

\* C9: whenever get_user_id_by_username ends after a detail lookup whose
\* JSON body holds user.result.rest_id = v, it has returned exactly v, of
\* the same type and value.
C9_RestIdReturnedAsIs ==
  \A t \in Thread :
    (/\ GotJson(t) /\ IsDerived(call[t].method)
     /\ ~IsErrorStatus(call[t].response.status)
     /\ HasRestId(call[t].response.body))
      => /\ call[t].pc = "returned"
         /\ call[t].value = RestIdIn(call[t].response.body)

C9_Witness ==
  \E t \in Thread :
    /\ call[t].pc = "returned" /\ IsDerived(call[t].method)
    /\ call[t].args.id = PyStr("elonmusk")
    /\ call[t].response.status = 200
    /\ call[t].response.body = RestId(PyStr("44196397"))
    /\ call[t].value = PyStr("44196397")

---------------------------------------------------------------------------
(* C10 *)

\* C10: in every call of a paginated accessor made with the identifier
\* alone, the mapping handed to requests.get is {identifier key: the
\* identifier as passed, count: 20, cursor: None, is_simplify: False}, and
\* the GET sent carries count=20 and is_simplify=False and no cursor.
C10_PaginationDefaults ==
  \A t \in Thread :
    (/\ InFlight(t) /\ IsPaged(call[t].method)
     /\ call[t].args.count = Unset /\ call[t].args.cursor = Unset
     /\ call[t].args.is_simplify = Unset)
      => LET p == call[t].params
             q == wire[t][1].query
         IN /\ Len(p) = 4
            /\ p[1][2] = call[t].args.id
            /\ p[2] = <<"count", [t |-> "int", v |-> 20]>>
            /\ p[3] = <<"cursor", [t |-> "None"]>>
            /\ p[4] = <<"is_simplify", [t |-> "bool", v |-> FALSE]>>
            /\ q = << <<p[1][1], call[t].args.id.v>>, <<"count", "20">>,
                      <<"is_simplify", "False">> >>

C10_Witness ==
  \E t \in Thread :
    /\ call[t].pc = "waiting"
    /\ Accessors[call[t].method].name = "search_job"
    /\ call[t].args = [id |-> PyStr("44196397"), count |-> Unset,
                       cursor |-> Unset, is_simplify |-> Unset]
    /\ ValueOf(call[t].params, "count") = PyInt(20)
    /\ ValueOf(call[t].params, "keyword") = PyStr("44196397")

---------------------------------------------------------------------------
(* C11 *)

---------------------------------------------------------------------------
(* C12 *)

\* C12: every constructed object holds, in every reachable state, the
\* configuration its constructor set: x_rapidapi_key is the key it was
\* constructed with, host and base_api_url are the fixed host and
\* 'https://<host>/api', headers are that key and that host; and no step,
\* whether an accessor call, its answer (success or failure) or its end,
\* changes any attribute of a constructed object.
C12_ConfigurationUnchanged ==
  /\ [](\A i \in Inst :
          inst[i].state = "ready" =>
            /\ inst[i].x_rapidapi_key = inst[i].arg
            /\ inst[i].host = PyStr(FixedHost)
            /\ inst[i].base_api_url = PyStr("https://twitter-x-api.p.rapidapi.com/api")
            /\ inst[i].headers =
                 ("x-rapidapi-key" :> inst[i].arg) @@ ("x-rapidapi-host" :> PyStr(FixedHost)))
  /\ [][\A i \in Inst : inst[i].state = "ready" => inst'[i] = inst[i]]_vars

C12_Witness ==
  /\ inst["a"].state = "ready" /\ inst["a"].x_rapidapi_key = PyStr("key-A")
  /\ inst["b"].state = "ready" /\ inst["b"].x_rapidapi_key = PyStr("key-B")
  /\ call["main"].pc = "returned" /\ call["main"].self = "b"
  /\ call["main"].response.kind = "exception"
  /\ inst["b"].headers["x-rapidapi-key"] = PyStr("key-B")

---------------------------------------------------------------------------
(* C13 *)

\* C13: with two threads calling accessors on the objects under every
\* interleaving, the GET of each invocation goes to the fixed base URL
\* followed by its own method's path, carries its own identifier and the
\* key the object it was called on was constructed with (and the fixed
\* host); each finished invocation's result is the one its own response
\* gives (None and a diagnostic naming its own status or transport failure,
\* or its own JSON body, or that body's rest_id); and a step that changes
\* one thread's invocation leaves the other thread's invocation, request and
\* output and every constructed object as they were.
C13_InstancesIndependent ==
  /\ [](\A t \in Thread :
          InFlight(t) =>
            LET req == wire[t][1]
                acc == Accessors[call[t].method]
            IN /\ req.url = "https://twitter-x-api.p.rapidapi.com/api" \o acc.path
               /\ req.headers["x-rapidapi-key"] = inst[call[t].self].arg
               /\ req.headers["x-rapidapi-host"] = PyStr(FixedHost)
               /\ req.query[1] = <<acc.idKey, call[t].args.id.v>>)
  /\ [](\A t \in Thread :
          Done(t) =>
            LET res == call[t].response IN
              /\ res.kind = "exception" =>
                   /\ ReturnedNone(t)
                   /\ stdout[t] = << <<"An error occurred", res.exc>> >>
              /\ (res.kind = "response" /\ IsErrorStatus(res.status)) =>
                   /\ ReturnedNone(t)
                   /\ stdout[t] = << <<"HTTP error occurred", res.status>> >>
              /\ (GotJson(t) /\ ~IsErrorStatus(res.status) /\ IsForwarding(call[t].method)) =>
                   (call[t].pc = "returned" /\ call[t].value = res.body)
              /\ (GotJson(t) /\ ~IsErrorStatus(res.status) /\ IsDerived(call[t].method)
                    /\ HasRestId(res.body)) =>
                   (call[t].pc = "returned" /\ call[t].value = RestIdIn(res.body)))
  /\ [][\A t \in Thread :
          (call'[t] # call[t] \/ wire'[t] # wire[t] \/ stdout'[t] # stdout[t]) =>
            /\ \A u \in Thread \ {t} :
                 call'[u] = call[u] /\ wire'[u] = wire[u] /\ stdout'[u] = stdout[u]
            /\ \A i \in Inst : inst[i].state = "ready" => inst'[i] = inst[i]]_vars

\* both threads have a call out at once, on objects with different keys, and
\* one has its result while the other still waits
C13_Witness ==
  /\ inst["a"].state = "ready" /\ inst["b"].state = "ready"
  /\ inst["a"].arg # inst["b"].arg
  /\ call["main"].pc = "returned" /\ call["main"].self = "a"
  /\ call["main"].value = PyStr("44196397")
  /\ call["worker"].pc = "waiting" /\ call["worker"].self = "b"
  /\ wire["main"][1].headers["x-rapidapi-key"] = inst["a"].arg
  /\ wire["worker"][1].headers["x-rapidapi-key"] = inst["b"].arg
  /\ wire["main"][1].headers # wire["worker"][1].headers

====
